---- MODULE Spec2Model ----
(***************************************************************************)
(* Model of main.py: the race-car telemetry pipeline.                      *)
(*                                                                         *)
(*   __main__ : parse the command line, then                               *)
(*   load_and_process_data : read_csv, pivot, optional fill, rename,       *)
(*                           derive Channel_7 = Channel_5 - Channel_4      *)
(*   find_first_conditions : first time of each of the three predicates    *)
(*   plot_conditions       : write plots/<title>_<suffix>.png              *)
(*                                                                         *)
(* Numbers.  A cell of the table is <<>> (NaN, missing) or <<x>> where x   *)
(* is the value multiplied by Scale, so that the quotients formed by the   *)
(* positional interpolation are exact integers.  Floating point rounding   *)
(* is not modelled.  A channel identifier is kept in half units (8 is the  *)
(* identifier 4.0, 9 is 4.5), so that int(col) is a real truncation.  The  *)
(* column label 'Channel_<n>' is represented by the integer n.             *)
(*                                                                         *)
(* Environment.  The input path is taken as given and readable, and the    *)
(* plots directory as writable; the figure itself is not modelled, only    *)
(* the suffix of the image file that savefig writes.                       *)
(***************************************************************************)
EXTENDS Integers, Sequences, FiniteSets, TLC

VARIABLES pc, file, args, fill_missing, fill_method, df, first, images, err

vars == <<pc, file, args, fill_missing, fill_method, df, first, images, err>>

(***************************************************************************)
(* Bounds of the explored inputs.                                          *)
(***************************************************************************)
\* Largest number of records with pairwise distinct (time, channel) in a file.
MaxRecords == 5

\* The times a record may carry; deliberately not evenly spaced.
Times == {0, 1, 3, 4}

\* The times of the files that carry all three channels.
ShortTimes == {0, 1, 3}

\* Integer channel identifiers 2, 4 and 5, in half units.
IntChanIds == {4, 8, 10}

\* The fractional identifier 4.5, in half units.
FracChanIds == {9}

\* The values a record may carry (before scaling).
RawValues == {-1, 0}

RECURSIVE Fact(_)
Fact(n) == IF n <= 1 THEN 1 ELSE n * Fact(n - 1)

\* Common denominator of every positional interpolation weight k/n, n < rows.
Scale == 2 * Fact(Cardinality(Times))

NaN == <<>>

IsNaN(c) == c = NaN

\* The value field of a record: a number, or NaN for an empty field.
NumCells == {<<v * Scale>> : v \in RawValues}

Rec(t, c, cell) == [time |-> t, channel |-> c, value |-> cell]

Key(r) == <<r.time, r.channel>>

RECURSIVE SortSet(_)
SortSet(S) ==
  IF S = {} THEN <<>>
  ELSE LET m == CHOOSE x \in S : \A y \in S : x <= y
       IN  <<m>> \o SortSet(S \ {m})

\* The records of a key set, listed by ascending time and then channel.
RECURSIVE Listing(_, _)
Listing(S, f) ==
  IF S = {} THEN <<>>
  ELSE LET k == CHOOSE x \in S : \A y \in S :
                   x[1] < y[1] \/ (x[1] = y[1] /\ x[2] <= y[2])
       IN  <<Rec(k[1], k[2], f[k])>> \o Listing(S \ {k}, f)

KeySets(T, C, n) == {S \in SUBSET (T \X C) : Cardinality(S) <= n}

Listings(KS, cells) == UNION {{Listing(S, f) : f \in [S -> cells]} : S \in KS}

\* Files whose records have pairwise distinct keys, integer identifiers and
\* numeric values.
MainFiles == Listings(KeySets(ShortTimes, IntChanIds, MaxRecords), NumCells)

\* Files at time 0 in which one (time, channel) pair occurs twice, the second
\* occurrence being the last record.
DupFiles ==
  LET base == Listings(KeySets({0}, IntChanIds, MaxRecords) \ {{}}, NumCells)
  IN  UNION {{Append(b, Rec(b[i].time, b[i].channel, c)) :
                i \in 1..Len(b), c \in NumCells} : b \in base}

\* Files at time 0 that contain the fractional identifier.
FracFiles ==
  Listings({K \in KeySets({0}, IntChanIds \cup FracChanIds, MaxRecords) :
              K \cap ({0} \X FracChanIds) # {}}, NumCells)

\* Files at times 0 and 1 in which some record has an empty value field.
NaNFiles ==
  {f \in Listings(KeySets({0, 1}, IntChanIds, MaxRecords), NumCells \cup {NaN}) :
     \E i \in 1..Len(f) : IsNaN(f[i].value)}

Reverse(q) == [i \in 1..Len(q) |-> q[Len(q) + 1 - i]]

\* Files of channels 4 and 5 over all the times, whose records come in
\* descending time order.
ReversedFiles ==
  {Reverse(f) : f \in Listings(KeySets(Times, {8, 10}, MaxRecords), NumCells)}

Files == MainFiles \cup DupFiles \cup FracFiles \cup NaNFiles \cup ReversedFiles

(***************************************************************************)
(* Command line.                                                           *)
(***************************************************************************)
ValidMethods == {"interpolate", "ffill", "bfill"}

MethodValues == ValidMethods \cup {"", "spline"}

NotGiven == [given |-> FALSE, value |-> ""]

MethodArgs == {NotGiven} \cup {[given |-> TRUE, value |-> m] : m \in MethodValues}

\* Python truthiness of args.method: None and '' are both false.
Truthy(m) == m.given /\ m.value # ""

NoErr == [type |-> "none", at |-> "none"]

EmptyDf == [index |-> <<>>, columns |-> <<>>, data |-> <<>>]

(***************************************************************************)
(* pandas operations used by load_and_process_data.                        *)
(***************************************************************************)
HasDuplicates(recs) ==
  \E i, j \in 1..Len(recs) :
     i < j /\ Key(recs[i]) = Key(recs[j])

Lookup(recs, t, c) ==
  IF \E i \in 1..Len(recs) : Key(recs[i]) = <<t, c>>
  THEN recs[CHOOSE i \in 1..Len(recs) : Key(recs[i]) = <<t, c>>].value
  ELSE NaN

\* DataFrame.pivot(index='time', columns='channel', values='value') on
\* records without duplicate keys: sorted index, sorted columns.
pivot(recs) ==
  LET index   == SortSet({recs[i].time : i \in 1..Len(recs)})
      columns == SortSet({recs[i].channel : i \in 1..Len(recs)})
  IN  [index   |-> index,
       columns |-> columns,
       data    |-> [i \in 1..Len(index) |->
                     [j \in 1..Len(columns) |-> Lookup(recs, index[i], columns[j])]]]

Column(d, j) == [i \in 1..Len(d.index) |-> d.data[i][j]]

Known(col) == {k \in 1..Len(col) : ~IsNaN(col[k])}

Before(col, i) == {k \in Known(col) : k < i}

After(col, i) == {k \in Known(col) : k > i}

Max(S) == CHOOSE x \in S : \A y \in S : y <= x

Min(S) == CHOOSE x \in S : \A y \in S : x <= y

\* Series.interpolate(method='linear'): the index is ignored and the rows are
\* taken as equally spaced; leading NaN are kept; trailing NaN take the last
\* valid value (limit_direction='forward', limit_area=None).
interpolate(col) ==
  [i \in 1..Len(col) |->
     IF ~IsNaN(col[i]) THEN col[i]
     ELSE IF Before(col, i) = {} THEN NaN
     ELSE IF After(col, i) = {} THEN col[Max(Before(col, i))]
     ELSE LET p == Max(Before(col, i))
              q == Min(After(col, i))
          IN  <<col[p][1] + ((col[q][1] - col[p][1]) * (i - p)) \div (q - p)>>]

ffill_later(col) ==
  [i \in 1..Len(col) |->
     IF ~IsNaN(col[i]) THEN col[i]
     ELSE IF After(col, i) = {} THEN NaN
     ELSE col[Min(After(col, i))]]

ffill(col) ==
  [i \in 1..Len(col) |->
     IF ~IsNaN(col[i]) THEN col[i]
     ELSE IF Before(col, i) = {} THEN NaN
     ELSE col[Max(Before(col, i))]]

bfill(col) ==
  [i \in 1..Len(col) |->
     IF ~IsNaN(col[i]) THEN col[i]
     ELSE IF After(col, i) = {} THEN NaN
     ELSE col[Min(After(col, i))]]

FillColumn(col, method) ==
  IF method = "interpolate" THEN interpolate(col)
  ELSE IF method = "ffill" THEN ffill(col)
  ELSE IF method = "bfill" THEN bfill(col)
  ELSE col

\* Lines 20-26: the fill, applied to every column, only under fill_missing.
Fill(d, fm, method) ==
  IF ~fm THEN d
  ELSE [d EXCEPT !.data =
          [i \in 1..Len(d.index) |->
             [j \in 1..Len(d.columns) |-> FillColumn(Column(d, j), method)[i]]]]

ChannelNameHalved(col) == col \div 4

\* f'Channel_{int(col)}': int() truncates the identifier.
ChannelName(col) == col \div 2

Rename(d) ==
  [d EXCEPT !.columns = [j \in 1..Len(d.columns) |-> ChannelName(d.columns[j])]]

Positions(d, label) == {j \in 1..Len(d.columns) : d.columns[j] = label}

HasColumnAlways(d, label) == TRUE

HasColumn(d, label) == Positions(d, label) # {}

\* df[label] for a label carried by at most one column.
GetColumn(d, label) ==
  IF Positions(d, label) = {} THEN [i \in 1..Len(d.index) |-> NaN]
  ELSE Column(d, Min(Positions(d, label)))

MinusSwapped(a, b) == IF IsNaN(a) \/ IsNaN(b) THEN NaN ELSE <<b[1] - a[1]>>

\* Float subtraction of two cells: NaN if either is NaN.
Minus(a, b) == IF IsNaN(a) \/ IsNaN(b) THEN NaN ELSE <<a[1] - b[1]>>

\* df['Channel_7'] = series: overwrite the column if it exists, else append.
SetColumn(d, label, col) ==
  IF Positions(d, label) # {}
  THEN [d EXCEPT !.data =
          [i \in 1..Len(d.index) |->
             [j \in 1..Len(d.columns) |->
                IF d.columns[j] = label THEN col[i] ELSE d.data[i][j]]]]
  ELSE [d EXCEPT !.columns = Append(d.columns, label),
                 !.data = [i \in 1..Len(d.index) |-> Append(d.data[i], col[i])]]

(***************************************************************************)
(* find_first_conditions                                                   *)
(***************************************************************************)
\* Channel_2 < -0.5 on a cell; a comparison with NaN is False.
Condition1(c) == ~IsNaN(c) /\ 2 * c[1] < -Scale

\* Channel_7 < 0 on a cell.
Condition2(c) == ~IsNaN(c) /\ c[1] < 0

IndexMax(S) == IF S = {} THEN NaN ELSE <<Max(S)>>

\* Index.min(): NaN on an empty index.
IndexMin(S) == IF S = {} THEN NaN ELSE <<Min(S)>>

find_first_conditions(d) ==
  LET c2 == GetColumn(d, 2)
      c7 == GetColumn(d, 7)
      rows == 1..Len(d.index)
  IN  << IndexMin({d.index[i] : i \in {k \in rows : Condition1(c2[k])}}),
         IndexMin({d.index[i] : i \in {k \in rows : Condition2(c7[k])}}),
         IndexMin({d.index[i] : i \in {k \in rows :
                                        Condition1(c2[k]) /\ Condition2(c7[k])}}) >>

(***************************************************************************)
(* The run.                                                                *)
(***************************************************************************)
Init ==
  /\ pc = "start"
  /\ file \in Files
  /\ args = [fill |-> FALSE, method |-> NotGiven]
  /\ fill_missing = FALSE
  /\ fill_method = "interpolate"
  /\ df = EmptyDf
  /\ first = <<>>
  /\ images = {}
  /\ err = NoErr

\* __main__, lines 121-141.
ParseArgs ==
  /\ pc = "start"
  /\ \E f \in BOOLEAN, m \in MethodArgs :
       /\ args' = [fill |-> f, method |-> m]
       /\ fill_missing' = f
       /\ IF Truthy(m) /\ m.value \notin ValidMethods
          THEN /\ pc' = "error"
               /\ err' = [type |-> "ValueError", at |-> "args"]
               /\ fill_method' = fill_method
          ELSE /\ pc' = "load"
               /\ err' = err
               /\ fill_method' = IF Truthy(m) THEN m.value ELSE fill_method
  /\ UNCHANGED <<file, df, first, images>>

\* load_and_process_data, lines 14-29: read, pivot, fill, rename.
Reshape ==
  /\ pc = "load"
  /\ IF HasDuplicates(file)
     THEN /\ pc' = "error"
          /\ err' = [type |-> "ValueError", at |-> "pivot"]
          /\ df' = df
     ELSE /\ pc' = "derive"
          /\ err' = err
          /\ df' = Rename(Fill(pivot(file), fill_missing, fill_method))
  /\ UNCHANGED <<file, args, fill_missing, fill_method, first, images>>

\* load_and_process_data, lines 31-34: Channel_7 = Channel_5 - Channel_4.
Derive ==
  /\ pc = "derive"
  /\ IF ~HasColumn(df, 5) \/ ~HasColumn(df, 4)
     THEN /\ pc' = "error"
          /\ err' = [type |-> "KeyError", at |-> "derive"]
          /\ df' = df
     ELSE IF Cardinality(Positions(df, 5)) > 1 \/ Cardinality(Positions(df, 4)) > 1
     THEN /\ pc' = "error"
          /\ err' = [type |-> "ValueError", at |-> "derive"]
          /\ df' = df
     ELSE /\ pc' = "find"
          /\ err' = err
          /\ df' = SetColumn(df, 7,
                     [i \in 1..Len(df.index) |->
                        Minus(GetColumn(df, 5)[i], GetColumn(df, 4)[i])])
  /\ UNCHANGED <<file, args, fill_missing, fill_method, first, images>>

\* __main__, lines 151-154.
FindFirst ==
  /\ pc = "find"
  /\ IF ~HasColumn(df, 2)
     THEN /\ pc' = "error"
          /\ err' = [type |-> "KeyError", at |-> "find"]
          /\ first' = first
     ELSE /\ pc' = "plot"
          /\ err' = err
          /\ first' = find_first_conditions(df)
  /\ UNCHANGED <<file, args, fill_missing, fill_method, df, images>>

SuffixOfMethod(fm, method) == method

\* Lines 104-107: the suffix of the image file name.
Suffix(fm, method) == IF fm THEN method ELSE "no_fill"

\* plot_conditions; it reads the globals fill_missing and fill_method.
PlotConditions ==
  /\ pc = "plot"
  /\ images' = images \cup {Suffix(fill_missing, fill_method)}
  /\ pc' = "done"
  /\ UNCHANGED <<file, args, fill_missing, fill_method, df, first, err>>

Next == ParseArgs \/ Reshape \/ Derive \/ FindFirst \/ PlotConditions

Spec == Init /\ [][Next]_vars

(***************************************************************************)
(* Vocabulary of the properties.                                           *)
(***************************************************************************)
\* The table exists: lines 14-29 have run without raising.
Reshaped == pc \in {"derive", "find", "plot", "done"}
            \/ (pc = "error" /\ err.at \in {"derive", "find"})

\* load_and_process_data has just reshaped the table: line 29 is done, line 32
\* is next.  Nothing after line 29 changes a column of the input.
JustReshaped == pc = "derive"

\* Channel_7 has been assigned: line 32 has run without raising.
Derived == pc \in {"find", "plot", "done"} \/ (pc = "error" /\ err.at = "find")

Rows == 1..Len(df.index)

\* The channel identifiers of the input, in half units.
InputIds == {file[i].channel : i \in 1..Len(file)}

\* The columns of the table before Channel_7 is added: one per identifier.
InputColumns == 1..Cardinality(InputIds)

\* The identifier behind column j: pivot orders the columns by identifier.
IdOfColumn(j) ==
  CHOOSE c \in InputIds : Cardinality({b \in InputIds : b < c}) = j - 1

\* The cell of the input at (time of row i, column j); NaN if the file has
\* no record for the pair.  Meaningful for files without duplicate pairs.
Raw(i, j) ==
  LET hits == {k \in 1..Len(file) :
                 file[k].time = df.index[i] /\ file[k].channel = IdOfColumn(j)}
  IN  IF hits = {} THEN NaN ELSE file[CHOOSE k \in hits : TRUE].value

\* Rows of column j known in the input and earlier (later) in time than row i.
EarlierKnown(i, j) == {k \in Rows : df.index[k] < df.index[i] /\ ~IsNaN(Raw(k, j))}

LaterKnown(i, j) == {k \in Rows : df.index[k] > df.index[i] /\ ~IsNaN(Raw(k, j))}

\* k is the row of S nearest in time to row i.
Nearest(k, S, i) ==
  /\ k \in S
  /\ \A m \in S : \/ (df.index[m] <= df.index[k] /\ df.index[k] < df.index[i])
                  \/ (df.index[i] < df.index[k] /\ df.index[k] <= df.index[m])

Interpolating == Reshaped /\ fill_missing /\ fill_method = "interpolate"

\* The identifier n, taken as an integer, occurs in the input.
Appears(n) == \E c \in InputIds : 2 * n <= c /\ c < 2 * n + 2

ValidInput == \A c \in InputIds : c % 2 = 0

(***************************************************************************)
(* C1.  Under interpolate, a missing cell strictly between two known cells *)
(* of its column is filled with the interpolation BY TIME between the      *)
(* nearest earlier and the nearest later known value.                      *)
(* Stated as claimed; the code interpolates by row position.               *)
(***************************************************************************)
C1_InterpolateByTime ==
  Interpolating =>
    \A i \in Rows, j \in InputColumns :
      (IsNaN(Raw(i, j)) /\ EarlierKnown(i, j) # {} /\ LaterKnown(i, j) # {}) =>
        \E p \in EarlierKnown(i, j), q \in LaterKnown(i, j) :
          /\ Nearest(p, EarlierKnown(i, j), i)
          /\ Nearest(q, LaterKnown(i, j), i)
          /\ ~IsNaN(df.data[i][j])
          /\ (df.data[i][j][1] - Raw(p, j)[1]) * (df.index[q] - df.index[p])
               = (Raw(q, j)[1] - Raw(p, j)[1]) * (df.index[i] - df.index[p])

(***************************************************************************)
(* C2.  Under interpolate, a missing cell before the first or after the    *)
(* last known value of its column is still missing after the fill.         *)
(* Stated as claimed; the code fills the trailing cells.                   *)
(***************************************************************************)
C2_InterpolateKeepsOuterGaps ==
  Interpolating =>
    \A i \in Rows, j \in InputColumns :
      (IsNaN(Raw(i, j)) /\ (EarlierKnown(i, j) = {} \/ LaterKnown(i, j) = {})) =>
        IsNaN(df.data[i][j])

(***************************************************************************)
(* C3.  Reshaping succeeds on every record sequence, duplicated            *)
(* (time, channel) pairs included, and a duplicated pair maps to the value *)
(* of its last record.  Stated as claimed; the code raises on duplicates.  *)
(***************************************************************************)
LastValue(t, c) ==
  file[Max({k \in 1..Len(file) : file[k].time = t /\ file[k].channel = c})].value

C3_LastWriteWins ==
  /\ err.at # "pivot"
  /\ Reshaped =>
       \A i \in Rows, j \in InputColumns :
         (\E k \in 1..Len(file) :
             file[k].time = df.index[i] /\ file[k].channel = IdOfColumn(j)) =>
           (~fill_missing => df.data[i][j] = LastValue(df.index[i], IdOfColumn(j)))

(***************************************************************************)
(* C4.  A valid method on the command line makes the fill switch active    *)
(* even without the fill flag: the method is applied and names the image.  *)
(* Stated as claimed; the code leaves the switch to the fill flag alone.   *)
(* The amended statement follows.                                          *)
(***************************************************************************)
C4_MethodImpliesFill ==
  (pc # "start" /\ args.method.given /\ args.method.value \in ValidMethods) =>
    /\ fill_missing
    /\ pc = "done" => images = {args.method.value}

(***************************************************************************)
(* C4, amended.  The fill switch is active exactly when the fill flag is   *)
(* given.  With the flag and a valid method, the reshaper applies that     *)
(* method and the image suffix is the method name; with a valid method but *)
(* no flag, no fill is applied and the suffix is no_fill.                  *)
(***************************************************************************)
\* Column j of the input table, by ascending time.
RawColumn(j) == [i \in Rows |-> Raw(i, j)]

C4_FillFollowsFlag ==
  (pc # "start" /\ args.method.given /\ args.method.value \in ValidMethods) =>
    /\ fill_missing = args.fill
    /\ fill_method = args.method.value
    /\ JustReshaped =>
         \A j \in InputColumns :
           LET raw == RawColumn(j)
               expected == IF args.fill THEN FillColumn(raw, args.method.value)
                                       ELSE raw
           IN  \A i \in Rows : df.data[i][j] = expected[i]
    /\ pc = "done" =>
         images = {IF args.fill THEN args.method.value ELSE "no_fill"}

C4_Witness ==
  /\ pc = "done"
  /\ args.fill
  /\ args.method = [given |-> TRUE, value |-> "bfill"]
  /\ images = {"bfill"}
  /\ \E i \in Rows, j \in InputColumns : IsNaN(Raw(i, j)) /\ ~IsNaN(df.data[i][j])

(***************************************************************************)
(* C5.  Every supplied method value outside interpolate, ffill, bfill ends *)
(* the run with an argument error before the loader: nothing is read,      *)
(* filled or written.  Stated as claimed; the code accepts the empty       *)
(* string.                                                                 *)
(***************************************************************************)
C5_InvalidMethodRejected ==
  (pc # "start" /\ args.method.given /\ args.method.value \notin ValidMethods) =>
    /\ pc = "error"
    /\ err = [type |-> "ValueError", at |-> "args"]
    /\ df = EmptyDf
    /\ images = {}

(***************************************************************************)
(* C6.  After load_and_process_data, at every time, Channel_7 is missing   *)
(* exactly when Channel_4 or Channel_5 is missing in the filled table, and *)
(* is Channel_5 - Channel_4 otherwise, under every fill policy.            *)
(***************************************************************************)
C6_DerivedColumnLaw ==
  Derived =>
    /\ Cardinality(Positions(df, 4)) = 1
    /\ Cardinality(Positions(df, 5)) = 1
    /\ Cardinality(Positions(df, 7)) = 1
    /\ \A i \in Rows :
         \A j4 \in Positions(df, 4), j5 \in Positions(df, 5), j7 \in Positions(df, 7) :
           /\ IsNaN(df.data[i][j7]) <=> (IsNaN(df.data[i][j4]) \/ IsNaN(df.data[i][j5]))
           /\ ~IsNaN(df.data[i][j7]) =>
                df.data[i][j7][1] = df.data[i][j5][1] - df.data[i][j4][1]

C6_Witness ==
  /\ pc = "done"
  /\ fill_missing
  /\ \E i \in Rows : \E j7 \in Positions(df, 7) : IsNaN(df.data[i][j7])
  /\ \E i \in Rows : \E j7 \in Positions(df, 7) :
        ~IsNaN(df.data[i][j7]) /\ df.data[i][j7][1] # 0
  /\ \E i \in Rows : \E j4 \in Positions(df, 4) :
        IsNaN(Raw(i, j4)) /\ ~IsNaN(df.data[i][j4])

(***************************************************************************)
(* C7.  For each of the three predicates find_first_conditions returns the *)
(* least time of a row on which the predicate is true with every column it *)
(* reads present, and the sentinel NaN when there is no such row.          *)
(***************************************************************************)
Below(label, i, num, den) ==
  \E j \in Positions(df, label) :
     ~IsNaN(df.data[i][j]) /\ den * df.data[i][j][1] < num * Scale

Sat1 == {df.index[i] : i \in {k \in Rows : Below(2, k, -1, 2)}}

Sat2 == {df.index[i] : i \in {k \in Rows : Below(7, k, 0, 1)}}

Sat12 == {df.index[i] : i \in {k \in Rows : Below(2, k, -1, 2) /\ Below(7, k, 0, 1)}}

LeastOf(res, S) ==
  \/ (IsNaN(res) /\ S = {})
  \/ (~IsNaN(res) /\ res[1] \in S /\ \A t \in S : res[1] <= t)

C7_FirstTimes ==
  pc \in {"plot", "done"} =>
    /\ Len(first) = 3
    /\ LeastOf(first[1], Sat1)
    /\ LeastOf(first[2], Sat2)
    /\ LeastOf(first[3], Sat12)

C7_Witness ==
  /\ pc = "done"
  /\ ~IsNaN(first[1]) /\ ~IsNaN(first[2]) /\ ~IsNaN(first[3])
  /\ first[1][1] < first[3][1]
  /\ \E i \in Rows : \E j \in Positions(df, 7) :
        Below(2, i, -1, 2) /\ IsNaN(df.data[i][j])

(***************************************************************************)
(* C8.  Under ffill a missing cell with an earlier known value takes the   *)
(* nearest earlier one and leading missing cells stay missing; under bfill *)
(* a missing cell with a later known value takes the nearest later one and *)
(* trailing missing cells stay missing; the rows are in ascending time     *)
(* order and a known cell is never changed.                                *)
(***************************************************************************)
C8_ForwardBackwardFill ==
  (JustReshaped /\ fill_missing /\ fill_method \in {"ffill", "bfill"}) =>
    /\ \A i, k \in Rows : i < k => df.index[i] < df.index[k]
    /\ {df.index[i] : i \in Rows} = {file[k].time : k \in 1..Len(file)}
    /\ \A i \in Rows, j \in InputColumns :
         LET S == IF fill_method = "ffill" THEN EarlierKnown(i, j)
                                           ELSE LaterKnown(i, j)
         IN  IF ~IsNaN(Raw(i, j)) THEN df.data[i][j] = Raw(i, j)
             ELSE IF S = {} THEN IsNaN(df.data[i][j])
             ELSE \E k \in S : Nearest(k, S, i) /\ df.data[i][j] = Raw(k, j)

C8_Witness ==
  /\ JustReshaped
  /\ \E k \in 1..(Len(file) - 1) : file[k].time > file[k + 1].time
  /\ fill_missing
  /\ fill_method = "ffill"
  /\ \E i \in Rows, j \in InputColumns :
        /\ IsNaN(Raw(i, j))
        /\ Cardinality(EarlierKnown(i, j)) > 1
        /\ LaterKnown(i, j) # {}
        /\ ~IsNaN(df.data[i][j])
  /\ \E i \in Rows, j \in InputColumns :
        IsNaN(Raw(i, j)) /\ EarlierKnown(i, j) = {} /\ IsNaN(df.data[i][j])

(***************************************************************************)
(* C9.  For every valid input (integer channel identifiers) the columns of *)
(* the reshaped table before derivation are exactly the distinct           *)
(* identifiers of the input, each named Channel_<id>, and two distinct     *)
(* identifiers never share a column name.                                  *)
(***************************************************************************)
C9_ColumnsAreIdentifiers ==
  (pc = "derive" /\ ValidInput) =>
    /\ Len(df.columns) = Cardinality(InputIds)
    /\ \A c \in InputIds :
         Cardinality({j \in 1..Len(df.columns) : 2 * df.columns[j] = c}) = 1
    /\ \A j, k \in 1..Len(df.columns) : j # k => df.columns[j] # df.columns[k]

C9_Witness ==
  /\ pc = "derive"
  /\ ValidInput
  /\ Cardinality(InputIds) = 3
  /\ Len(df.columns) = 3

(***************************************************************************)
(* C10.  If identifier 4 or identifier 5 never appears in the input, the   *)
(* run never reaches the condition evaluator or the renderer and writes no *)
(* image; when the reshaped table was built, the abort is the              *)
(* missing-column error of the derivation step.                            *)
(***************************************************************************)
C10_MissingChannelAborts ==
  (~Appears(4) \/ ~Appears(5)) =>
    /\ pc \notin {"find", "plot", "done"}
    /\ first = <<>>
    /\ images = {}
    /\ (pc = "error" /\ err.at \notin {"args", "pivot"}) =>
          err = [type |-> "KeyError", at |-> "derive"]

C10_Witness ==
  /\ pc = "error"
  /\ err = [type |-> "KeyError", at |-> "derive"]
  /\ Appears(2)
  /\ Appears(5)
  /\ ~Appears(4)
  /\ Len(df.index) > 1

====
